---------------------------- MODULE Spec2Model ----------------------------
(***************************************************************************)
(* gdpc/geometry.py: helpers that place geometrical shapes of blocks       *)
(* through an Editor.  Every function of the file is one action below.     *)
(* The Editor, its Transform, Block, Box, Rect and the point generators    *)
(* (line3D, lineSequence3D, cylinder, fittingCylinder) live in other files *)
(* of the package; they are modelled from their documented contracts.      *)
(*                                                                         *)
(* A behaviour is one call of one placement function on an editor whose    *)
(* transform and world are arbitrary (drawn in Init).                      *)
(***************************************************************************)
EXTENDS Integers, Sequences, FiniteSets

VARIABLES
    transform,  \* editor.transform: [translation, rotation, flip]
    transform0, \* the transform when the call began
    world,      \* the editor's world: the set of [pos, block] cells that are not empty
    world0,     \* the world when the call began
    calls,      \* the placement calls the function made on the editor, in order
    outcome,    \* "idle" before the call; then "returned" or "raised"
    error,      \* the failure that reached the caller (0: none)
    op          \* the call: the function's name and its arguments

vars == <<transform, transform0, world, world0, calls, outcome, error, op>>

---------------------------------------------------------------------------
(* Bounds of the model *)

\* corners of cuboids have coordinates in 0..MaxCoord
MaxCoord == 2
\* boxes have sizes in -1..MaxSize
MaxSize == 2
\* the same, where every function is run with filters and failures
MinCoord == 1
\* the step that raises is one of the first MaxFault
MaxFault == 4

---------------------------------------------------------------------------
(* Integer vectors (glm.ivec3 / ivec2) *)

Abs(n) == IF n < 0 THEN -n ELSE n
Min(a, b) == IF a <= b THEN a ELSE b
Max(a, b) == IF a >= b THEN a ELSE b

VAdd(u, v) == <<u[1] + v[1], u[2] + v[2], u[3] + v[3]>>
VSub(u, v) == <<u[1] - v[1], u[2] - v[2], u[3] - v[3]>>
VSubScalar(u, n) == <<u[1] - n, u[2] - n, u[3] - n>>
VSum(v) == v[1] + v[2] + v[3]
VMin(u, v) == <<Min(u[1], v[1]), Min(u[2], v[2]), Min(u[3], v[3])>>
VMax(u, v) == <<Max(u[1], v[1]), Max(u[2], v[2]), Max(u[3], v[3])>>

Cube(lo, hi) == (lo..hi) \X (lo..hi) \X (lo..hi)

---------------------------------------------------------------------------
(* Block *)

NoFacing == "none"
Facings == <<"north", "east", "south", "west">>
FacingIndex(f) == CHOOSE i \in 1..4 : Facings[i] = f

\* Block(""): the default second block of the patterned placements
EmptyBlock == [id |-> "", facing |-> NoFacing]
Stone == [id |-> "stone", facing |-> NoFacing]
Stairs == [id |-> "stairs", facing |-> "east"]

\* flipping x swaps east and west, flipping z swaps north and south
FlipFacing(f, flip) ==
    CASE f = "east" /\ flip[1] -> "west"
      [] f = "west" /\ flip[1] -> "east"
      [] f = "north" /\ flip[3] -> "south"
      [] f = "south" /\ flip[3] -> "north"
      [] OTHER -> f

RotateFacing(f, rotation) == Facings[((FacingIndex(f) - 1 + rotation) % 4) + 1]

\* block.transformed(rotation, flip): a re-oriented copy
BlockTransformed(block, rotation, flip) ==
    IF block.facing = NoFacing THEN block
    ELSE [block EXCEPT !.facing = RotateFacing(FlipFacing(block.facing, flip), rotation)]

---------------------------------------------------------------------------
(* Transform *)

Identity == [translation |-> <<0, 0, 0>>, rotation |-> 0, flip |-> <<FALSE, FALSE, FALSE>>]

Translations == {<<0, 0, 0>>, <<1, -2, 3>>}
Transforms == [translation : Translations, rotation : 0..3, flip : BOOLEAN \X BOOLEAN \X BOOLEAN]

FlipVec(v, flip) ==
    <<IF flip[1] THEN -v[1] ELSE v[1],
      IF flip[2] THEN -v[2] ELSE v[2],
      IF flip[3] THEN -v[3] ELSE v[3]>>

\* a quarter turn about the vertical (y) axis, [rotation] times
Rotate3D(v, rotation) ==
    CASE rotation = 0 -> v
      [] rotation = 1 -> <<-v[3], v[2], v[1]>>
      [] rotation = 2 -> <<-v[1], v[2], -v[3]>>
      [] rotation = 3 -> <<v[3], v[2], -v[1]>>

\* transform * point
Apply(t, v) == VAdd(Rotate3D(FlipVec(v, t.flip), t.rotation), t.translation)

---------------------------------------------------------------------------
(* Box and Rect *)

Box(offset, size) == [offset |-> offset, size |-> size]
BoxBegin(box) == box.offset
BoxEnd(box) == VAdd(box.offset, box.size)
BoxLast(box) == VSubScalar(BoxEnd(box), 1)

\* Box.between(cornerA, cornerB): the corners in any order
BoxBetween(a, b) == Box(VMin(a, b), VAdd(VSub(VMax(a, b), VMin(a, b)), <<1, 1, 1>>))

\* box.inner as the generator yields it: every point with begin <= p < end,
\* x outermost and z innermost; nothing when a size is not positive
BoxInnerSeq(box) ==
    LET sz == box.size
        n == IF sz[1] > 0 /\ sz[2] > 0 /\ sz[3] > 0 THEN sz[1] * sz[2] * sz[3] ELSE 0
    IN  [i \in 1..n |->
            VAdd(box.offset, <<(i - 1) \div (sz[2] * sz[3]),
                               ((i - 1) \div sz[3]) % sz[2],
                               (i - 1) % sz[3]>>)]

\* box.inner as a set of points
BoxInner(box) ==
    (BoxBegin(box)[1]..BoxEnd(box)[1] - 1)
        \X (BoxBegin(box)[2]..BoxEnd(box)[2] - 1)
        \X (BoxBegin(box)[3]..BoxEnd(box)[3] - 1)

\* the number of axes on which p lies on the boundary of the box
OnBoundary(box, p) ==
    LET first == BoxBegin(box)
        last == BoxLast(box)
        on(i) == IF p[i] = first[i] \/ p[i] = last[i] THEN 1 ELSE 0
    IN  on(1) + on(2) + on(3)

\* box.shell: the six faces
BoxShell(box) == {p \in BoxInner(box) : OnBoundary(box, p) >= 1}

\* box.wireframe: the twelve edges
BoxWireframe(box) == {p \in BoxInner(box) : OnBoundary(box, p) >= 2}

Rect(offset, size) == [offset |-> offset, size |-> size]
\* rect.toBox(y, height)
RectToBox(rect, y, height) ==
    Box(<<rect.offset[1], y, rect.offset[2]>>, <<rect.size[1], height, rect.size[2]>>)


---------------------------------------------------------------------------
(* Point generators *)

SeqRange(s) == {s[i] : i \in 1..Len(s)}
Sign(a, b) == IF b > a THEN 1 ELSE -1

\* the axis a line is driven along, and the two others (1-based)
DrivingAxis(d) ==
    IF d[1] >= d[2] /\ d[1] >= d[3] THEN 1
    ELSE IF d[2] >= d[1] /\ d[2] >= d[3] THEN 2
    ELSE 3
OtherAxes(a) == CASE a = 1 -> <<2, 3>> [] a = 2 -> <<1, 3>> [] a = 3 -> <<1, 2>>

RECURSIVE LineFrom(_, _, _, _, _, _, _)
LineFrom(cur, end, d, s, a, p1, p2) ==
    IF cur[a] = end[a] THEN <<cur>>
    ELSE LET o == OtherAxes(a)
             step1 == p1 >= 0
             step2 == p2 >= 0
             nxt == [i \in 1..3 |->
                        IF i = a THEN cur[i] + s[i]
                        ELSE IF i = o[1] /\ step1 THEN cur[i] + s[i]
                        ELSE IF i = o[2] /\ step2 THEN cur[i] + s[i]
                        ELSE cur[i]]
             q1 == (IF step1 THEN p1 - 2 * d[a] ELSE p1) + 2 * d[o[1]]
             q2 == (IF step2 THEN p2 - 2 * d[a] ELSE p2) + 2 * d[o[2]]
         IN  <<cur>> \o LineFrom(nxt, end, d, s, a, q1, q2)

\* the points of the thin line from begin to end (inclusive), in order
ThinLine(begin, end) ==
    LET d == <<Abs(end[1] - begin[1]), Abs(end[2] - begin[2]), Abs(end[3] - begin[3])>>
        s == <<Sign(begin[1], end[1]), Sign(begin[2], end[2]), Sign(begin[3], end[3])>>
        a == DrivingAxis(d)
        o == OtherAxes(a)
    IN  LineFrom(begin, end, d, s, a, 2 * d[o[1]] - d[a], 2 * d[o[2]] - d[a])

\* line3D(begin, end, width): the thin line, each point widened to [width]
line3D(begin, end, width) ==
    LET lo == -((width - 1) \div 2)
        hi == width \div 2
    IN  {VAdd(p, o) : p \in SeqRange(ThinLine(begin, end)), o \in Cube(lo, hi)}

\* lineSequence3D(points, closed): the lines from point to point, and from the
\* last point back to the first when closed
lineSequence3D(points, closed) ==
    UNION ({SeqRange(ThinLine(points[i], points[i + 1])) : i \in 1..Len(points) - 1}
           \cup (IF closed /\ Len(points) > 0
                 THEN {SeqRange(ThinLine(points[Len(points)], points[1]))}
                 ELSE {}))

\* whether cell q of the plane lies in the ellipse inscribed in the rectangle lo..hi
InEllipse(lo, hi, q) ==
    LET d == <<hi[1] - lo[1] + 1, hi[2] - lo[2] + 1>>
        \* twice the distance from the centre (from the central cells when d is even)
        e == [i \in 1..2 |-> Abs(2 * q[i] - (lo[i] + hi[i])) - (IF d[i] % 2 = 0 THEN 1 ELSE 0)]
        r == [i \in 1..2 |-> d[i] - (IF d[i] % 2 = 0 THEN 2 ELSE 1)]
    IN  e[1] * e[1] * r[2] * r[2] + e[2] * e[2] * r[1] * r[1] <= r[1] * r[1] * r[2] * r[2]

\* the cells of the ellipse inscribed in the rectangle lo..hi
Ellipse(lo, hi) == {q \in (lo[1]..hi[1]) \X (lo[2]..hi[2]) : InEllipse(lo, hi, q)}

\* the cells of the ellipse with a neighbour outside it
EllipseEdge(lo, hi) ==
    LET cells == Ellipse(lo, hi)
    IN  {q \in cells :
            \E n \in {<<q[1] - 1, q[2]>>, <<q[1] + 1, q[2]>>, <<q[1], q[2] - 1>>, <<q[1], q[2] + 1>>} :
                n \notin cells}

\* the point of the cylinder along [a] (1-based) at height h over cell q of the plane
Lift(a, q, h) ==
    CASE a = 1 -> <<h, q[1], q[2]>>
      [] a = 2 -> <<q[1], h, q[2]>>
      [] a = 3 -> <<q[1], q[2], h>>

\* fittingCylinder(corner1, corner2, axis, tube, hollow); axis is 0, 1 or 2:
\* solid; or a tube, open at both ends; or hollow, a tube closed at both ends
fittingCylinder(corner1, corner2, axis, tube, hollow) ==
    LET lo == VMin(corner1, corner2)
        hi == VMax(corner1, corner2)
        a == axis + 1
        o == OtherAxes(a)
        lo2 == <<lo[o[1]], lo[o[2]]>>
        hi2 == <<hi[o[1]], hi[o[2]]>>
        wall == {Lift(a, q, h) : q \in EllipseEdge(lo2, hi2), h \in lo[a]..hi[a]}
        caps == {Lift(a, q, h) : q \in Ellipse(lo2, hi2), h \in {lo[a], hi[a]}}
    IN  IF tube THEN wall
        ELSE IF hollow THEN wall \cup caps
        ELSE {Lift(a, q, h) : q \in Ellipse(lo2, hi2), h \in lo[a]..hi[a]}

\* cylinder(baseCenter, diameters, length, axis, tube, hollow)
cylinder(baseCenter, diameters, length, axis, tube, hollow) ==
    IF diameters[1] <= 0 \/ diameters[2] <= 0 \/ length <= 0 THEN {}
    ELSE LET a == axis + 1
             o == OtherAxes(a)
             c1 == [i \in 1..3 |->
                       IF i = a THEN baseCenter[i]
                       ELSE IF i = o[1] THEN baseCenter[i] - ((diameters[1] - 1) \div 2)
                       ELSE baseCenter[i] - ((diameters[2] - 1) \div 2)]
             c2 == [i \in 1..3 |->
                       IF i = a THEN c1[i] + length - 1
                       ELSE IF i = o[1] THEN c1[i] + diameters[1] - 1
                       ELSE c1[i] + diameters[2] - 1]
         IN  fittingCylinder(c1, c2, axis, tube, hollow)

---------------------------------------------------------------------------
(* Editor *)

\* replace = None: no filter
None == {"None"}
Replaces == {None, {"stone"}}

WorldAt(w, p) ==
    IF \E c \in w : c.pos = p THEN (CHOOSE c \in w : c.pos = p).block ELSE EmptyBlock

\* a placement at p is applied when there is no filter or the block now at p matches it
Passes(w, p, replace) == replace = None \/ WorldAt(w, p).id \in replace

\* editor.placeBlockGlobal(points, block, replace): global-space placement
PlaceGlobal(w, points, block, replace) ==
    LET hit == {p \in points : Passes(w, p, replace)}
    IN  {c \in w : c.pos \notin hit}
        \cup (IF block.id = "" THEN {} ELSE {[pos |-> p, block |-> block] : p \in hit})

\* editor.placeBlock(points, block, replace): applies the editor's transform itself
PlaceLocal(t, w, points, block, replace) ==
    PlaceGlobal(w, {Apply(t, p) : p \in points},
                BlockTransformed(block, t.rotation, t.flip), replace)

\* one step of a placement function: a call on the editor, or the work on the
\* other collaborators (transform, block, geometry) that comes before it
Prepare == [fn |-> "prepare", points |-> {}, block |-> EmptyBlock, replace |-> None]
GlobalCall(points, block, replace) ==
    [fn |-> "placeBlockGlobal", points |-> points, block |-> block, replace |-> replace]
LocalCall(points, block, replace) ==
    [fn |-> "placeBlock", points |-> points, block |-> block, replace |-> replace]

ApplyStep(t, w, c) ==
    CASE c.fn = "placeBlockGlobal" -> PlaceGlobal(w, c.points, c.block, c.replace)
      [] c.fn = "placeBlock" -> PlaceLocal(t, w, c.points, c.block, c.replace)
      [] OTHER -> w

RECURSIVE ApplySteps(_, _, _)
ApplySteps(t, w, steps) ==
    IF steps = <<>> THEN w
    ELSE ApplySteps(t, ApplyStep(t, w, Head(steps)), Tail(steps))

IsPlacement(c) == c.fn # "prepare"


---------------------------------------------------------------------------
(* geometry.py: each function as the steps it takes, under editor transform t *)

\* the corners taken as given: the box from first, of size last - first + 1
placeCuboidUnordered(t, first, last, block, replace) ==
    <<Prepare,
      GlobalCall(BoxInner(Box(Apply(t, first),
                              VAdd(VSub(Apply(t, last), Apply(t, first)), <<1, 1, 1>>))),
                 BlockTransformed(block, t.rotation, t.flip), replace)>>

placeCuboid(t, first, last, block, replace) ==
    <<Prepare,
      GlobalCall(BoxInner(BoxBetween(Apply(t, first), Apply(t, last))),
                 BlockTransformed(block, t.rotation, t.flip), replace)>>

\* only the first corner is transformed
placeCuboidHollowHalf(t, first, last, block, replace) ==
    <<Prepare,
      GlobalCall(BoxShell(BoxBetween(Apply(t, first), last)),
                 BlockTransformed(block, t.rotation, t.flip), replace)>>

placeCuboidHollow(t, first, last, block, replace) ==
    <<Prepare,
      GlobalCall(BoxShell(BoxBetween(Apply(t, first), Apply(t, last))),
                 BlockTransformed(block, t.rotation, t.flip), replace)>>

placeCuboidWireframe(t, first, last, block, replace) ==
    <<Prepare,
      GlobalCall(BoxWireframe(BoxBetween(Apply(t, first), Apply(t, last))),
                 BlockTransformed(block, t.rotation, t.flip), replace)>>

\* the y size is not looked at
HasZeroSizeXZ(box) == box.size[1] = 0 \/ box.size[3] = 0

\* box.size.x == 0 or box.size.y == 0 or box.size.z == 0
HasZeroSize(box) == box.size[1] = 0 \/ box.size[2] = 0 \/ box.size[3] = 0

placeBox(t, box, block, replace) ==
    IF HasZeroSize(box) THEN <<>>
    ELSE placeCuboid(t, BoxBegin(box), VSubScalar(BoxEnd(box), 1), block, replace)

placeBoxHollow(t, box, block, replace) ==
    IF HasZeroSize(box) THEN <<>>
    ELSE placeCuboidHollow(t, BoxBegin(box), VSubScalar(BoxEnd(box), 1), block, replace)

placeBoxWireframe(t, box, block, replace) ==
    IF HasZeroSize(box) THEN <<>>
    ELSE placeCuboidWireframe(t, BoxBegin(box), VSubScalar(BoxEnd(box), 1), block, replace)

placeRect(t, rect, y, block, replace) == placeBox(t, RectToBox(rect, y, 1), block, replace)

placeRectOutline(t, rect, y, block, replace) ==
    placeBoxWireframe(t, RectToBox(rect, y, 1), block, replace)

\* the two blocks the other way round
CheckeredBlockSwapped(pos, block1, block2) == IF VSum(pos) % 2 = 0 THEN block2 ELSE block1

\* block1 if sum(pos) % 2 == 0 else block2
CheckeredBlock(pos, block1, block2) == IF VSum(pos) % 2 = 0 THEN block1 ELSE block2

placeCheckeredBox(t, box, block1, block2, replace) ==
    LET local == BoxInnerSeq(Box(<<0, 0, 0>>, box.size))
    IN  <<Prepare>> \o
        [i \in 1..Len(local) |->
            LocalCall({VAdd(box.offset, local[i])},
                      CheckeredBlock(local[i], block1, block2), replace)]

placeCheckeredCuboid(t, first, last, block1, block2, replace) ==
    placeCheckeredBox(t, BoxBetween(first, last), block1, block2, replace)

\* the stripes run along the next axis
StripedBlockOffAxis(pos, stripeAxis, block1, block2) ==
    IF pos[((stripeAxis + 1) % 3) + 1] % 2 = 0 THEN block1 ELSE block2

\* block1 if pos[stripeAxis] % 2 == 0 else block2
StripedBlock(pos, stripeAxis, block1, block2) ==
    IF pos[stripeAxis + 1] % 2 = 0 THEN block1 ELSE block2

placeStripedBox(t, box, stripeAxis, block1, block2, replace) ==
    LET local == BoxInnerSeq(Box(<<0, 0, 0>>, box.size))
    IN  <<Prepare>> \o
        [i \in 1..Len(local) |->
            LocalCall({VAdd(box.offset, local[i])},
                      StripedBlock(local[i], stripeAxis, block1, block2), replace)]

placeStripedCuboid(t, first, last, stripeAxis, block1, block2, replace) ==
    placeStripedBox(t, BoxBetween(first, last), stripeAxis, block1, block2, replace)

\* the transformed line handed to placeBlock, which transforms it again
placeLineTwice(t, first, last, block, width, replace) ==
    <<Prepare,
      LocalCall(line3D(Apply(t, first), Apply(t, last), width),
                BlockTransformed(block, t.rotation, t.flip), replace)>>

placeLine(t, first, last, block, width, replace) ==
    <<Prepare,
      GlobalCall(line3D(Apply(t, first), Apply(t, last), width),
                 BlockTransformed(block, t.rotation, t.flip), replace)>>

\* closed is not passed on
placeLineSequenceOpen(t, points, block, closed, replace) ==
    <<Prepare, LocalCall(lineSequence3D(points, FALSE), block, replace)>>

placeLineSequence(t, points, block, closed, replace) ==
    <<Prepare, LocalCall(lineSequence3D(points, closed), block, replace)>>

placeCylinder(t, baseCenter, diameters, length, block, axis, tube, hollow, replace) ==
    <<Prepare, LocalCall(cylinder(baseCenter, diameters, length, axis, tube, hollow), block, replace)>>

\* only the first corner is transformed
placeFittingCylinderHalf(t, corner1, corner2, block, axis, tube, hollow, replace) ==
    <<Prepare,
      GlobalCall(fittingCylinder(Apply(t, corner1), corner2, axis, tube, hollow),
                 BlockTransformed(block, t.rotation, t.flip), replace)>>

placeFittingCylinder(t, corner1, corner2, block, axis, tube, hollow, replace) ==
    <<Prepare,
      GlobalCall(fittingCylinder(Apply(t, corner1), Apply(t, corner2), axis, tube, hollow),
                 BlockTransformed(block, t.rotation, t.flip), replace)>>

---------------------------------------------------------------------------
(* Running a function: its steps are taken in order until one raises *)

\* the steps begun when the fault-th step raises (0: none does)
Tried(steps, fault) == IF fault \in 1..Len(steps) THEN SubSeq(steps, 1, fault) ELSE steps
\* the failure is swallowed and the remaining steps are taken
DoneDespite(steps, fault) ==
    IF fault \in 1..Len(steps)
    THEN SubSeq(steps, 1, fault - 1) \o SubSeq(steps, fault + 1, Len(steps))
    ELSE steps

\* the steps completed
Done(steps, fault) == IF fault \in 1..Len(steps) THEN SubSeq(steps, 1, fault - 1) ELSE steps
\* what the caller sees
Outcome(steps, fault) == IF fault \in 1..Len(steps) THEN "raised" ELSE "returned"
Raised(steps, fault) == IF fault \in 1..Len(steps) THEN fault ELSE 0

Run(call, steps, fault) ==
    /\ op' = [call EXCEPT !.fault = fault]
    /\ calls' = SelectSeq(Tried(steps, fault), IsPlacement)
    /\ world' = ApplySteps(transform, world, Done(steps, fault))
    /\ outcome' = Outcome(steps, fault)
    /\ error' = Raised(steps, fault)
    /\ UNCHANGED <<transform, transform0, world0>>

---------------------------------------------------------------------------
(* Inputs *)

Offsets == {<<0, 0, 0>>, <<1, -1, 3>>}
Boxes(sizes) == {Box(o, s) : o \in Offsets, s \in sizes}
Rects(sizes) == {Rect(<<o[1], o[3]>>, <<s[1], s[3]>>) : o \in Offsets, s \in sizes}
Heights == {0, 1}
Axes == {0, 1, 2}
Widths == {1, 2}
LinePoints == {<<0, 0, 0>>, <<2, 0, 0>>, <<2, 1, 2>>, <<0, 2, 1>>}
\* tube, hollow
Modes == {<<FALSE, FALSE>>, <<TRUE, FALSE>>, <<FALSE, TRUE>>}

Settled == {[pos |-> <<0, 0, 0>>, block |-> Stone], [pos |-> <<1, 0, 1>>, block |-> Stairs]}

\* the steps that may raise: any of them, or none
Faults(in, steps) == IF in.faulty THEN 0..Min(Len(steps), MaxFault) ELSE {0}

\* geometry up to MaxCoord and MaxSize, one block, no filter, no failure
Wide == [corners |-> Cube(0, MaxCoord), sizes |-> Cube(-1, MaxSize), dims |-> 1..MaxCoord + 1,
         blocks |-> {Stairs}, seconds |-> {EmptyBlock}, replaces |-> {None}, faulty |-> FALSE]
\* corners up to MinCoord, with a second block, filters and failures
Narrow == [corners |-> Cube(0, MinCoord), sizes |-> Cube(-1, MaxSize), dims |-> 1..MinCoord + 1,
           blocks |-> {Stairs}, seconds |-> {EmptyBlock, Stairs}, replaces |-> Replaces,
           faulty |-> TRUE]

NoOp == [name |-> "none", fault |-> 0]

---------------------------------------------------------------------------
(* Actions: one call of each function, its arguments drawn from [in] *)

CallPlaceCuboid(in) ==
    /\ outcome = "idle"
    /\ \E first \in in.corners, last \in in.corners, block \in in.blocks, replace \in in.replaces :
        LET steps == placeCuboid(transform, first, last, block, replace)
        IN  \E fault \in Faults(in, steps) :
                Run([name |-> "placeCuboid", first |-> first, last |-> last, block |-> block,
                     replace |-> replace, fault |-> 0], steps, fault)

CallPlaceCuboidHollow(in) ==
    /\ outcome = "idle"
    /\ \E first \in in.corners, last \in in.corners, block \in in.blocks, replace \in in.replaces :
        LET steps == placeCuboidHollow(transform, first, last, block, replace)
        IN  \E fault \in Faults(in, steps) :
                Run([name |-> "placeCuboidHollow", first |-> first, last |-> last,
                     block |-> block, replace |-> replace, fault |-> 0], steps, fault)

CallPlaceCuboidWireframe(in) ==
    /\ outcome = "idle"
    /\ \E first \in in.corners, last \in in.corners, block \in in.blocks, replace \in in.replaces :
        LET steps == placeCuboidWireframe(transform, first, last, block, replace)
        IN  \E fault \in Faults(in, steps) :
                Run([name |-> "placeCuboidWireframe", first |-> first, last |-> last,
                     block |-> block, replace |-> replace, fault |-> 0], steps, fault)

CallPlaceBox(in) ==
    /\ outcome = "idle"
    /\ \E box \in Boxes(in.sizes), block \in in.blocks, replace \in in.replaces :
        LET steps == placeBox(transform, box, block, replace)
        IN  \E fault \in Faults(in, steps) :
                Run([name |-> "placeBox", box |-> box, block |-> block,
                     replace |-> replace, fault |-> 0], steps, fault)

CallPlaceBoxHollow(in) ==
    /\ outcome = "idle"
    /\ \E box \in Boxes(in.sizes), block \in in.blocks, replace \in in.replaces :
        LET steps == placeBoxHollow(transform, box, block, replace)
        IN  \E fault \in Faults(in, steps) :
                Run([name |-> "placeBoxHollow", box |-> box, block |-> block,
                     replace |-> replace, fault |-> 0], steps, fault)

CallPlaceBoxWireframe(in) ==
    /\ outcome = "idle"
    /\ \E box \in Boxes(in.sizes), block \in in.blocks, replace \in in.replaces :
        LET steps == placeBoxWireframe(transform, box, block, replace)
        IN  \E fault \in Faults(in, steps) :
                Run([name |-> "placeBoxWireframe", box |-> box, block |-> block,
                     replace |-> replace, fault |-> 0], steps, fault)

CallPlaceRect(in) ==
    /\ outcome = "idle"
    /\ \E rect \in Rects(in.sizes), y \in Heights, block \in in.blocks, replace \in in.replaces :
        LET steps == placeRect(transform, rect, y, block, replace)
        IN  \E fault \in Faults(in, steps) :
                Run([name |-> "placeRect", rect |-> rect, y |-> y, block |-> block,
                     replace |-> replace, fault |-> 0], steps, fault)

CallPlaceRectOutline(in) ==
    /\ outcome = "idle"
    /\ \E rect \in Rects(in.sizes), y \in Heights, block \in in.blocks, replace \in in.replaces :
        LET steps == placeRectOutline(transform, rect, y, block, replace)
        IN  \E fault \in Faults(in, steps) :
                Run([name |-> "placeRectOutline", rect |-> rect, y |-> y, block |-> block,
                     replace |-> replace, fault |-> 0], steps, fault)

CallPlaceCheckeredCuboid(in) ==
    /\ outcome = "idle"
    /\ \E first \in in.corners, last \in in.corners,
          block1 \in in.blocks, block2 \in in.seconds, replace \in in.replaces :
        LET steps == placeCheckeredCuboid(transform, first, last, block1, block2, replace)
        IN  \E fault \in Faults(in, steps) :
                Run([name |-> "placeCheckeredCuboid", first |-> first, last |-> last,
                     block1 |-> block1, block2 |-> block2,
                     replace |-> replace, fault |-> 0], steps, fault)

CallPlaceCheckeredBox(in) ==
    /\ outcome = "idle"
    /\ \E box \in Boxes(in.sizes), block1 \in in.blocks, block2 \in in.seconds,
          replace \in in.replaces :
        LET steps == placeCheckeredBox(transform, box, block1, block2, replace)
        IN  \E fault \in Faults(in, steps) :
                Run([name |-> "placeCheckeredBox", box |-> box,
                     block1 |-> block1, block2 |-> block2,
                     replace |-> replace, fault |-> 0], steps, fault)

CallPlaceStripedCuboid(in) ==
    /\ outcome = "idle"
    /\ \E first \in in.corners, last \in in.corners, stripeAxis \in Axes,
          block1 \in in.blocks, block2 \in in.seconds, replace \in in.replaces :
        LET steps == placeStripedCuboid(transform, first, last, stripeAxis, block1, block2, replace)
        IN  \E fault \in Faults(in, steps) :
                Run([name |-> "placeStripedCuboid", first |-> first, last |-> last,
                     stripeAxis |-> stripeAxis, block1 |-> block1, block2 |-> block2,
                     replace |-> replace, fault |-> 0], steps, fault)

CallPlaceStripedBox(in) ==
    /\ outcome = "idle"
    /\ \E box \in Boxes(in.sizes), stripeAxis \in Axes,
          block1 \in in.blocks, block2 \in in.seconds, replace \in in.replaces :
        LET steps == placeStripedBox(transform, box, stripeAxis, block1, block2, replace)
        IN  \E fault \in Faults(in, steps) :
                Run([name |-> "placeStripedBox", box |-> box,
                     stripeAxis |-> stripeAxis, block1 |-> block1, block2 |-> block2,
                     replace |-> replace, fault |-> 0], steps, fault)

CallPlaceLine(in) ==
    /\ outcome = "idle"
    /\ \E first \in in.corners, last \in in.corners, block \in in.blocks, width \in Widths,
          replace \in in.replaces :
        LET steps == placeLine(transform, first, last, block, width, replace)
        IN  \E fault \in Faults(in, steps) :
                Run([name |-> "placeLine", first |-> first, last |-> last, block |-> block,
                     width |-> width, replace |-> replace, fault |-> 0], steps, fault)

CallPlaceLineSequence(in) ==
    /\ outcome = "idle"
    /\ \E points \in LinePoints \X LinePoints \X LinePoints, block \in in.blocks,
          closed \in BOOLEAN, replace \in in.replaces :
        LET steps == placeLineSequence(transform, points, block, closed, replace)
        IN  \E fault \in Faults(in, steps) :
                Run([name |-> "placeLineSequence", points |-> points, block |-> block,
                     closed |-> closed, replace |-> replace, fault |-> 0], steps, fault)

CallPlaceCylinder(in) ==
    /\ outcome = "idle"
    /\ \E baseCenter \in Offsets, diameters \in in.dims \X in.dims, length \in in.dims,
          block \in in.blocks, axis \in Axes, mode \in Modes, replace \in in.replaces :
        LET steps == placeCylinder(transform, baseCenter, diameters, length, block, axis,
                                   mode[1], mode[2], replace)
        IN  \E fault \in Faults(in, steps) :
                Run([name |-> "placeCylinder", baseCenter |-> baseCenter,
                     diameters |-> diameters, length |-> length, block |-> block,
                     axis |-> axis, tube |-> mode[1], hollow |-> mode[2],
                     replace |-> replace, fault |-> 0], steps, fault)

CallPlaceFittingCylinder(in) ==
    /\ outcome = "idle"
    /\ \E corner1 \in in.corners, corner2 \in in.corners, block \in in.blocks,
          axis \in Axes, mode \in Modes, replace \in in.replaces :
        LET steps == placeFittingCylinder(transform, corner1, corner2, block, axis,
                                          mode[1], mode[2], replace)
        IN  \E fault \in Faults(in, steps) :
                Run([name |-> "placeFittingCylinder", corner1 |-> corner1,
                     corner2 |-> corner2, block |-> block,
                     axis |-> axis, tube |-> mode[1], hollow |-> mode[2],
                     replace |-> replace, fault |-> 0], steps, fault)

---------------------------------------------------------------------------
(* Specifications *)

InitWith(ts, ws) ==
    /\ transform \in ts
    /\ transform0 = transform
    /\ world \in ws
    /\ world0 = world
    /\ calls = <<>>
    /\ outcome = "idle"
    /\ error = 0
    /\ op = NoOp

Turned == [translation |-> <<1, -2, 3>>, rotation |-> 1, flip |-> <<TRUE, FALSE, FALSE>>]

\* every function, on small geometry, with filters and failures
Init == InitWith({Identity, Turned}, {{}, Settled})

Next ==
    \/ CallPlaceCuboid(Narrow)
    \/ CallPlaceCuboidHollow(Narrow)
    \/ CallPlaceCuboidWireframe(Narrow)
    \/ CallPlaceBox(Narrow)
    \/ CallPlaceBoxHollow(Narrow)
    \/ CallPlaceBoxWireframe(Narrow)
    \/ CallPlaceRect(Narrow)
    \/ CallPlaceRectOutline(Narrow)
    \/ CallPlaceCheckeredCuboid(Narrow)
    \/ CallPlaceCheckeredBox(Narrow)
    \/ CallPlaceStripedCuboid(Narrow)
    \/ CallPlaceStripedBox(Narrow)
    \/ CallPlaceLine(Narrow)
    \/ CallPlaceLineSequence(Narrow)
    \/ CallPlaceCylinder(Narrow)
    \/ CallPlaceFittingCylinder(Narrow)

Spec == Init /\ [][Next]_vars

\* the cuboids, boxes and rectangles under the identity and under every rotation
\* and flip with a translation
InitCuboid == InitWith({Identity} \cup {t \in Transforms : t.translation # <<0, 0, 0>>}, {{}})

NextCuboid ==
    \/ CallPlaceCuboid(Wide)
    \/ CallPlaceCuboidHollow(Wide)
    \/ CallPlaceCuboidWireframe(Wide)
    \/ CallPlaceBox(Wide)
    \/ CallPlaceBoxHollow(Wide)
    \/ CallPlaceBoxWireframe(Wide)
    \/ CallPlaceRect(Wide)
    \/ CallPlaceRectOutline(Wide)

SpecCuboid == InitCuboid /\ [][NextCuboid]_vars

\* lines, line sequences and cylinders
Mirrored == [translation |-> <<0, 0, 0>>, rotation |-> 2, flip |-> <<FALSE, TRUE, TRUE>>]
InitCurve == InitWith({Identity, Turned, Mirrored}, {{}})

NextCurve ==
    \/ CallPlaceLine(Wide)
    \/ CallPlaceLineSequence(Wide)
    \/ CallPlaceCylinder(Wide)
    \/ CallPlaceFittingCylinder(Wide)

SpecCurve == InitCurve /\ [][NextCurve]_vars


---------------------------------------------------------------------------
(* Properties *)

Returned == outcome = "returned"
ThePoint(c) == CHOOSE p \in c.points : TRUE
AllPoints == UNION {calls[i].points : i \in 1..Len(calls)}
AnyZero(size) == \E i \in 1..3 : size[i] = 0
ClosedBox(a, b) ==
    (Min(a[1], b[1])..Max(a[1], b[1]))
        \X (Min(a[2], b[2])..Max(a[2], b[2]))
        \X (Min(a[3], b[3])..Max(a[3], b[3]))
LocalPositions(size) == (0..size[1] - 1) \X (0..size[2] - 1) \X (0..size[3] - 1)
Unit(a) == [i \in 1..3 |-> IF i = a THEN 1 ELSE 0]

CuboidOps == {"placeCuboid", "placeCuboidHollow", "placeCuboidWireframe"}
BoxOps == {"placeBox", "placeBoxHollow", "placeBoxWireframe"}
RectOps == {"placeRect", "placeRectOutline"}
PatternBoxOps == {"placeCheckeredBox", "placeStripedBox"}
PatternOps == PatternBoxOps \cup {"placeCheckeredCuboid", "placeStripedCuboid"}
PreTransformOps == CuboidOps \cup BoxOps \cup RectOps \cup {"placeLine", "placeFittingCylinder"}
PerCallOps == PatternOps \cup {"placeLineSequence", "placeCylinder"}

\* the box a Box or Rect wrapper was called on
OpBox == IF op.name \in RectOps THEN RectToBox(op.rect, op.y, 1) ELSE op.box
\* the blocks the call was given
OpBlocks == IF op.name \in PatternOps THEN {op.block1, op.block2} ELSE {op.block}

\* C1: under the identity transform placeCuboid places the block at exactly the
\* points of the closed box spanned by the two corners, in either order of the
\* corners, and at the one point when the corners coincide.
C1_CuboidFillsClosedBox ==
    (op.name = "placeCuboid" /\ transform = Identity /\ Returned) =>
        /\ Len(calls) = 1
        /\ calls[1].points = ClosedBox(op.first, op.last)
        /\ calls[1].points =
               placeCuboid(transform, op.last, op.first, op.block, op.replace)[2].points
        /\ (op.first = op.last => calls[1].points = {op.first})
        /\ calls[1].block = op.block
        /\ (op.replace = None =>
               \A p \in ClosedBox(op.first, op.last) : WorldAt(world, p) = op.block)

C1_Witness ==
    /\ op.name = "placeCuboid" /\ transform = Identity /\ Returned
    /\ op.first[1] > op.last[1] /\ op.first[2] < op.last[2] /\ op.first[3] = op.last[3]
    /\ Cardinality(calls[1].points) = 6

\* C2: a Box or Rect wrapper called on a box with a size of 0 returns having made
\* no placement call and having left the world as it was.
C2_ZeroSizeIsNoOp ==
    (op.name \in BoxOps \cup RectOps /\ AnyZero(OpBox.size)) =>
        /\ Returned
        /\ calls = <<>>
        /\ world = world0

C2_Witness ==
    /\ op.name = "placeBoxHollow" /\ Returned
    /\ op.box.size = <<2, 0, -1>>
    /\ world0 # {} /\ world = world0 /\ calls = <<>>

\* C3: placeCheckeredBox on a box of non-negative size makes exactly one placeBlock
\* call for each local position p, at offset + p, with block1 when the sum of p's
\* coordinates is even and block2 otherwise, whatever the offset.
C3_CheckeredPattern ==
    (op.name = "placeCheckeredBox" /\ Returned /\ \A i \in 1..3 : op.box.size[i] >= 0) =>
        /\ Len(calls) = Cardinality(LocalPositions(op.box.size))
        /\ \A p \in LocalPositions(op.box.size) :
               \E i \in 1..Len(calls) :
                   /\ calls[i].fn = "placeBlock"
                   /\ calls[i].points = {VAdd(op.box.offset, p)}
                   /\ calls[i].block = (IF (p[1] + p[2] + p[3]) % 2 = 0
                                        THEN op.block1 ELSE op.block2)
                   /\ calls[i].replace = op.replace

C3_Witness ==
    /\ op.name = "placeCheckeredBox" /\ Returned
    /\ op.box.size = <<2, 2, 2>> /\ op.box.offset = <<1, -1, 3>>
    /\ op.block1 # op.block2
    /\ Len(calls) = 8
    /\ calls[1].block = op.block1 /\ calls[2].block = op.block2

\* C4: placeStripedBox gives block1 to the local positions whose coordinate along
\* the stripe axis is even and block2 to the others: one step along the axis
\* changes the block, equal coordinates along it give equal blocks.
C4_StripedPattern ==
    (op.name = "placeStripedBox") =>
        \A i, j \in 1..Len(calls) :
            LET a == op.stripeAxis + 1
                pi == VSub(ThePoint(calls[i]), op.box.offset)
                pj == VSub(ThePoint(calls[j]), op.box.offset)
            IN  /\ calls[i].block = (IF pi[a] % 2 = 0 THEN op.block1 ELSE op.block2)
                /\ (pi[a] = pj[a] => calls[i].block = calls[j].block)
                /\ (pj = VAdd(pi, <<Unit(a)[1], Unit(a)[2], Unit(a)[3]>>) =>
                       /\ {calls[i].block, calls[j].block} = {op.block1, op.block2}
                       /\ (op.block1 # op.block2 => calls[i].block # calls[j].block))

C4_Witness ==
    /\ op.name = "placeStripedBox" /\ Returned
    /\ op.stripeAxis = 2 /\ op.box.size = <<2, 2, 2>> /\ op.box.offset = <<1, -1, 3>>
    /\ op.block1 # op.block2
    /\ Len(calls) = 8
    /\ calls[1].block = op.block1 /\ calls[2].block = op.block2 /\ calls[3].block = op.block1

\* C5: placeLineSequence on three points hands placeBlock, in one call, the
\* untransformed points of the lines P0-P1 and P1-P2, and of P2-P0 as well exactly
\* when closed, with the block and the filter it was given.
C5_LineSequence ==
    (op.name = "placeLineSequence" /\ Returned) =>
        LET P == op.points
            open == SeqRange(ThinLine(P[1], P[2])) \cup SeqRange(ThinLine(P[2], P[3]))
        IN  /\ Len(calls) = 1
            /\ calls[1].fn = "placeBlock"
            /\ calls[1].points = (IF op.closed THEN open \cup SeqRange(ThinLine(P[3], P[1]))
                                  ELSE open)
            /\ calls[1].block = op.block
            /\ calls[1].replace = op.replace

C5_Witness ==
    /\ op.name = "placeLineSequence" /\ Returned /\ op.closed
    /\ op.points = <<(<<0, 0, 0>>), (<<2, 0, 0>>), (<<2, 1, 2>>)>>
    /\ transform = Turned
    /\ <<1, 0, 1>> \in calls[1].points
    /\ op.replace # None /\ op.block = Stairs

\* C6: the points placeFittingCylinder places have the box between the two
\* corners (as the editor's transform maps it) as their bounding box: all lie in
\* it and they reach its lowest and highest coordinate on every axis.
C6_FittingCylinderBounds ==
    (op.name = "placeFittingCylinder" /\ Returned) =>
        LET B == {Apply(transform, p) : p \in ClosedBox(op.corner1, op.corner2)}
            lowest(i) == CHOOSE m \in {b[i] : b \in B} : \A b \in B : m <= b[i]
            highest(i) == CHOOSE m \in {b[i] : b \in B} : \A b \in B : m >= b[i]
        IN  /\ Len(calls) = 1
            /\ calls[1].points \subseteq B
            /\ \A i \in 1..3 :
                   /\ \E p \in calls[1].points : p[i] = lowest(i)
                   /\ \E p \in calls[1].points : p[i] = highest(i)

C6_Witness ==
    /\ op.name = "placeFittingCylinder" /\ Returned
    /\ transform = Turned
    /\ op.corner1 = <<2, 0, 0>> /\ op.corner2 = <<0, 1, 2>> /\ op.axis = 1
    /\ Cardinality(calls[1].points) = 10

\* C7: a failure of a collaborator reaches the caller as it is, nothing is placed
\* after it and the failed call is not made again: when the k-th placeBlock of a
\* patterned box fails, the first k positions were tried in order, the first k-1
\* are placed and stay placed.
C7_FailurePropagates ==
    /\ (Returned => error = 0)
    /\ (outcome = "raised" =>
           /\ error = op.fault
           /\ op.fault >= 1
           /\ Len(calls) = op.fault - 1
           /\ world = ApplySteps(transform, world0, SubSeq(calls, 1, Len(calls) - 1)))
    /\ (outcome = "raised" /\ op.name \in PatternBoxOps =>
           \A i \in 1..Len(calls) :
               calls[i].points =
                   {VAdd(op.box.offset, BoxInnerSeq(Box(<<0, 0, 0>>, op.box.size))[i])})

C7_Witness ==
    /\ op.name = "placeCheckeredBox" /\ outcome = "raised"
    /\ op.box.size = <<2, 2, 2>>
    /\ Len(calls) = 3
    /\ world # world0
    /\ op.replace = None /\ op.block2 = Stairs
    /\ Cardinality(world \ world0) = 2

\* C8 as stated: every function that transforms its key points makes exactly one
\* placeBlockGlobal call.
C8_ExactlyOneGlobalCall ==
    (op.name \in PreTransformOps /\ Returned) =>
        /\ Len(calls) = 1
        /\ calls[1].fn = "placeBlockGlobal"

\* C8: the functions that transform their key points and block call only
\* placeBlockGlobal, with the transformed block, once (not at all for a Box or
\* Rect wrapper on a box with a size of 0); the others call only placeBlock, with
\* the block as given; the filter is passed on as given, the editor's transform
\* is left as it was, and what is placed carries the transform once.
C8_TransformAppliedOnce ==
    /\ transform = transform0
    /\ \A i \in 1..Len(calls) : calls[i].replace = op.replace
    /\ (op.name \in PreTransformOps =>
           /\ \A i \in 1..Len(calls) :
                  /\ calls[i].fn = "placeBlockGlobal"
                  /\ calls[i].block = BlockTransformed(op.block, transform.rotation, transform.flip)
           /\ (Returned =>
                  Len(calls) = (IF op.name \in BoxOps \cup RectOps /\ AnyZero(OpBox.size)
                                THEN 0 ELSE 1)))
    /\ (op.name \in PerCallOps =>
           \A i \in 1..Len(calls) :
               calls[i].fn = "placeBlock" /\ calls[i].block \in OpBlocks)
    /\ (op.name # "none" =>
           \A c \in world \ world0 :
               c.block \in {BlockTransformed(b, transform.rotation, transform.flip) : b \in OpBlocks})

C8_Witness ==
    /\ op.name = "placeLine" /\ Returned
    /\ transform = Turned
    /\ op.block = Stairs /\ op.replace = {"stone"}
    /\ Len(calls) = 1
    /\ calls[1].block # op.block

\* C9: the points placeCuboid, placeCuboidHollow and placeCuboidWireframe place
\* are the image under the editor's transform of the inner points, the shell and
\* the wireframe of the local box between the corners.
C9_KeyPointsSuffice ==
    (op.name \in CuboidOps /\ Returned) =>
        LET local == BoxBetween(op.first, op.last)
            shape == CASE op.name = "placeCuboid" -> BoxInner(local)
                       [] op.name = "placeCuboidHollow" -> BoxShell(local)
                       [] op.name = "placeCuboidWireframe" -> BoxWireframe(local)
        IN  /\ Len(calls) = 1
            /\ calls[1].points = {Apply(transform, p) : p \in shape}

C9_Witness ==
    /\ op.name = "placeCuboidHollow" /\ Returned
    /\ transform.rotation = 1 /\ transform.flip = <<TRUE, FALSE, TRUE>>
    /\ transform.translation = <<1, -2, 3>>
    /\ op.first = <<2, 0, 2>> /\ op.last = <<0, 2, 0>>
    /\ Cardinality(calls[1].points) = 26

\* C10 as stated: under the identity transform placeBox places exactly the points
\* of box.inner, for sizes with a negative component too.
C10_BoxPlacesInner ==
    (op.name = "placeBox" /\ transform = Identity /\ Returned) =>
        /\ AllPoints = BoxInner(op.box)
        /\ \A p \in BoxInner(op.box) : WorldAt(world, p) = op.block

=============================================================================
